---- MODULE Spec2Model ----
(***************************************************************************)
(* A model of the experiment harnesses of machine-learning-sandbox:        *)
(*   - ClassifierExperiment (construction, _execute and its plot / print   *)
(*     helpers) and the epoch sweep run_classifier_experiment;             *)
(*   - TextClassifierTrainer (construction, _train_tf_model with its       *)
(*     checkpoint callback) and TextClassifierOperator.evaluate.           *)
(* The deep-learning framework is the environment: a trained model is an   *)
(* opaque weight value chosen by training, and prediction / evaluation are *)
(* functions of the weights and the data.                                  *)
(***************************************************************************)
EXTENDS Integers, Sequences, FiniteSets, TLC

VARIABLES
    main,           \* which entry point drives the program
    pc,             \* position of the running code
    callerConfig,   \* the mapping the caller passed (the caller's object)
    defaultArg,     \* the shared default argument `config={}` of __init__
    config,         \* self.config of the experiment under execution
    clock,          \* int(time.time())
    trained,        \* the trained model handle (its weights), 0 when none
    history,        \* history.history of the last training
    test_eval,      \* (test_loss, test_acc)
    predictions,    \* predictions_array / custom_predictions_array
    custom_imgs,    \* the preprocessed custom images
    custom_eval,    \* (custom_test_loss, custom_test_acc)
    figure,         \* the current matplotlib figure
    results,        \* the result dictionaries built so far by _execute
    returned,       \* what _execute returned, <<>> until it has
    files,          \* the files written, in order
    log,            \* the calls made by the current run, in order
    exc,            \* the exception that propagated, "none" when none did
    idx,            \* the sweep's position in epoch_list
    epoch_list,     \* the sweep's list of epoch counts
    experiment1_results, \* the sweep's Fashion-MNIST lists
    experiment2_results, \* the sweep's MNIST lists
    runs,           \* the sweep's completed runs, in order
    txt,            \* the text trainer's state
    plt             \* the single-image plot state of the plotting helpers

vars == <<main, pc, callerConfig, defaultArg, config, clock, trained, history,
          test_eval, predictions, custom_imgs, custom_eval, figure, results,
          returned, files, log, exc, idx, epoch_list, experiment1_results,
          experiment2_results, runs, txt, plt>>

execVars == <<clock, trained, history, test_eval, predictions, custom_imgs,
              custom_eval, figure, results, returned, files, log>>

sweepVars == <<idx, epoch_list, experiment1_results, experiment2_results, runs>>

(***************************************************************************)
(* Bounds of the model.                                                    *)
(***************************************************************************)
\* how many distinct weight values training can end in
NumModels == 2
\* the clock's last value
MaxClock == 1
\* the most files the custom image directory holds
MaxCustomFiles == 11
\* the images of a dataset's test split
TestSize == 15
\* how many entries of epoch_list the sweep goes through
SweepLen == 2
\* the largest EPOCHS a caller of the text trainer passes
MaxEpochs == 3
\* the most non-zero likelihoods in a prediction vector given to the plot helpers
MaxPeaks == 2
\* the largest likelihood of a class in a prediction vector
MaxLikelihood == 1

(***************************************************************************)
(* Program constants.                                                      *)
(***************************************************************************)
\* plt.bar(range(10), ...): the value-array plot always has ten bars
NumBars == 10
\* the number of test images plotted
FirstImages == 15
\* ClassifierExperiment's default EPOCHS
DefaultEpochs == 10
\* TextClassifierTrainer's default EPOCHS
TextDefaultEpochs == 10

(***************************************************************************)
(* Python values.                                                          *)
(***************************************************************************)
EmptyDict == <<>>

\* {**a, **b}: a new mapping, the keys of both, b's value where both have one
DictMergeDefaultWins(a, b) ==
    [k \in (DOMAIN a) \cup (DOMAIN b) |-> IF k \in DOMAIN a THEN a[k] ELSE b[k]]

DictMerge(a, b) ==
    [k \in (DOMAIN a) \cup (DOMAIN b) |-> IF k \in DOMAIN b THEN b[k] ELSE a[k]]

\* seq[i] with Python's 0-based index
At(seq, i) == seq[i + 1]

Range(seq) == {seq[i] : i \in DOMAIN seq}

Max(S) == CHOOSE x \in S : \A y \in S : y <= x

\* np.argmax: the first index of the largest entry
ArgMax(v) ==
    CHOOSE i \in 0 .. (Len(v) - 1) :
        /\ \A j \in 0 .. (Len(v) - 1) : At(v, j) <= At(v, i)
        /\ \A j \in 0 .. (i - 1) : At(v, j) < At(v, i)

RECURSIVE SumSeq(_)
SumSeq(s) == IF s = <<>> THEN 0 ELSE Head(s) + SumSeq(Tail(s))

(***************************************************************************)
(* File names.  A name is a sequence of pieces; "/" separates directories. *)
(***************************************************************************)
Sep == "/"

RECURSIVE Components(_)
\* the components of a path: the runs of pieces between separators
Components(path) ==
    IF \A i \in DOMAIN path : path[i] # Sep
    THEN <<path>>
    ELSE LET k == CHOOSE i \in DOMAIN path :
                      path[i] = Sep /\ \A j \in 1 .. (i - 1) : path[j] # Sep
         IN  <<SubSeq(path, 1, k - 1)>> \o Components(SubSeq(path, k + 1, Len(path)))

\* the directory a path names: its components, a trailing separator ignored
DirectoryOf(path) ==
    LET c == Components(path)
    IN  IF c[Len(c)] = <<>> THEN SubSeq(c, 1, Len(c) - 1) ELSE c

\* the file lies in directory dir
Under(file, dir) ==
    LET f == Components(file)
        d == DirectoryOf(dir)
    IN  Len(f) = Len(d) + 1 /\ SubSeq(f, 1, Len(d)) = d

(***************************************************************************)
(* The framework and the data, as the experiment sees them.                *)
(***************************************************************************)
FashionNames ==
    <<"T-shirt/top", "Trouser", "Pullover", "Dress", "Coat", "Sandal", "Shirt",
      "Sneaker", "Bag", "Ankle boot">>

DigitNames == <<"0", "1", "2", "3", "4", "5", "6", "7", "8", "9">>

\* dataset.load_data(): the test split of a dataset, images as identifiers
Dataset(name) ==
    [test_images |-> [i \in 1 .. TestSize |-> i],
     test_labels |-> [i \in 1 .. TestSize |->
                         IF name = "mnist" THEN (3 * i) % 10 ELSE i % 10]]

\* the i-th file of the custom image directory, opened and preprocessed
CustomImage(i) == TestSize + i

\* the class likelihoods a model with weights m gives image x
Likelihood(m, x, num_classes) ==
    [c \in 1 .. num_classes |-> (m * c + x) % (MaxLikelihood + 1)]

\* history.history after fit(epochs=n): one list per metric, one entry per
\* epoch; no key at all when no epoch ran
FitHistory(n) ==
    IF n = 0 THEN EmptyDict
    ELSE [loss |-> [e \in 1 .. n |-> e], accuracy |-> [e \in 1 .. n |-> e]]

\* OPERATOR.use(images): the prediction vector of every image
Use(m, images, num_classes) ==
    [i \in 1 .. Len(images) |-> Likelihood(m, images[i], num_classes)]

\* the accuracy metric: the share of the images whose most likely class is
\* their label, kept as a fraction
Accuracy(m, images, labels, num_classes) ==
    [num |-> Cardinality({i \in 1 .. Len(images) :
                 ArgMax(Likelihood(m, images[i], num_classes)) = labels[i]}),
     den |-> Len(images)]

\* the loss: the mean over the images of a penalty that grows as the
\* likelihood given to the label falls, kept as a fraction
Loss(m, images, labels, num_classes) ==
    [num |-> SumSeq([i \in 1 .. Len(images) |->
                 3 * (MaxLikelihood - At(Likelihood(m, images[i], num_classes), labels[i]))]),
     den |-> Len(images)]

\* OPERATOR.evaluate((images, labels)): (loss, accuracy)
Evaluate(m, images, labels, num_classes) ==
    [loss |-> Loss(m, images, labels, num_classes),
     accuracy |-> Accuracy(m, images, labels, num_classes)]

(***************************************************************************)
(* ClassifierExperiment.                                                   *)
(***************************************************************************)
DefaultConfig ==
    [EPOCHS |-> DefaultEpochs,
     input_shape |-> <<28, 28>>,
     asset_opts |-> [save_assets |-> FALSE,
                     dir |-> <<".", Sep, "image_classifier_experiment", Sep,
                               "generated_plots", Sep>>],
     dataset |-> "fashion_mnist",
     custom_image_dir |-> "./image_classifier_experiment/custom images/fashion_mnist/*.jpg",
     labels |-> <<0, 8, 8, 3, 2>>,
     class_names |-> FashionNames]

ClassifierExperiment_init_DefaultWins(arg) == DictMergeDefaultWins(DefaultConfig, arg)

\* __init__: self.config = {**default, **config}
ClassifierExperiment_init(arg) == DictMerge(DefaultConfig, arg)

\* the mappings a caller constructs a single experiment with
CallerConfigs ==
    { EmptyDict,
      [EPOCHS |-> 0],
      [EPOCHS |-> 5,
       asset_opts |-> [save_assets |-> TRUE, dir |-> <<"out", Sep>>]],
      [asset_opts |-> [save_assets |-> TRUE, dir |-> <<".", Sep, "out">>]],
      [asset_opts |-> [dir |-> <<"out", Sep>>]],
      [asset_opts |-> [save_assets |-> TRUE]],
      [EPOCHS |-> 1, dataset |-> "mnist", class_names |-> DigitNames,
       labels |-> <<0, 0, 1, 9, 8, 2, 4, 3, 5, 7, 6>>, note |-> "mnist run"] }

\* the object bound to __init__'s parameter config
Param == IF callerConfig.passed THEN callerConfig.value ELSE defaultArg

Raise_Retry(e) == pc' = pc /\ exc' = e

\* an exception nothing catches: it leaves _execute, run() and the caller
Raise(e) == pc' = "raised" /\ exc' = e

\* the clock's last value for the caller at hand: the names of one run's
\* files are explored under an advancing clock by the single-experiment
\* caller, the sweep's many runs at one clock value
ClockLimit == IF main = "experiment" THEN MaxClock ELSE 0

\* time.time() read once: the clock may have advanced since the last read
Tick(t) == t \in {clock, clock + 1} /\ t <= ClockLimit /\ clock' = t

\* f"{dir}{EPOCHS}EPOCHS {prefix}-{int(time.time())}.png"
PlotName(cfg, prefix, t) ==
    cfg.asset_opts.dir \o <<ToString(cfg.EPOCHS), "EPOCHS ", prefix, "-", ToString(t), ".png">>

\* f"{dir}{prefix}-{int(time.time())}.csv"
AssetName(cfg, prefix, t) ==
    cfg.asset_opts.dir \o prefix \o <<"-", ToString(t), ".csv">>

\* __plot_image: the label under one image and its colour
plot_image(predictions_array, true_label, class_names) ==
    [color |-> IF ArgMax(predictions_array) = true_label THEN "blue" ELSE "red",
     predicted |-> At(class_names, ArgMax(predictions_array)),
     true |-> At(class_names, true_label)]

plot_value_array_RedLast(predictions_array, true_label) ==
    LET thisplot == [i \in 1 .. NumBars |-> "#777777"]
        blue == [thisplot EXCEPT ![true_label + 1] = "blue"]
    IN  [blue EXCEPT ![ArgMax(predictions_array) + 1] = "red"]

\* __plot_value_array: the colours of the ten bars
plot_value_array(predictions_array, true_label) ==
    LET thisplot == [i \in 1 .. NumBars |-> "#777777"]
        red == [thisplot EXCEPT ![ArgMax(predictions_array) + 1] = "red"]
    IN  [red EXCEPT ![true_label + 1] = "blue"]

\* the two helpers index class_names and the ten bars: what must hold for
\* image i not to raise
SubplotOk(preds, labels, images, i, class_names) ==
    /\ i <= Len(preds) /\ i <= Len(labels) /\ i <= Len(images)
    /\ labels[i] \in 0 .. (Len(class_names) - 1)
    /\ Len(preds[i]) = NumBars
    /\ labels[i] \in 0 .. (NumBars - 1)

\* the subplots __plot_multi_predictions draws before it is done or raises
Subplots(preds, labels, images, num_images, class_names) ==
    LET bad == {i \in 1 .. num_images : ~SubplotOk(preds, labels, images, i, class_names)}
        n == IF bad = {} THEN num_images
             ELSE (CHOOSE i \in bad : \A j \in bad : i <= j) - 1
    IN  [i \in 1 .. n |->
            [image |-> plot_image(preds[i], labels[i], class_names),
             values |-> plot_value_array(preds[i], labels[i])]]

(***************************************************************************)
(* ClassifierExperiment._execute, one action per statement group.  Every   *)
(* call into the framework, the image library or the file system either    *)
(* returns or raises; nothing in _execute catches.                         *)
(***************************************************************************)
NumClasses == Len(config.class_names)

StepsPredictFirst ==
    <<"load", "train", "plot_history", "use_test", "evaluate_test", "plot_test",
      "print_test", "load_custom", "use_custom", "evaluate_custom", "plot_custom",
      "print_custom", "return", "returned">>

\* the statements of _execute, in the order the method has them
Steps ==
    <<"load", "train", "plot_history", "evaluate_test", "use_test", "plot_test",
      "print_test", "load_custom", "use_custom", "evaluate_custom", "plot_custom",
      "print_custom", "return", "returned">>

\* the statement after the one at p
NextStep(p) == Steps[(CHOOSE i \in DOMAIN Steps : Steps[i] = p) + 1]

\* __print_plot(prefix), entered with `sofar` the calls logged up to it
print_plot(prefix, phase, sofar, next) ==
    IF "save_assets" \notin DOMAIN config.asset_opts
    THEN /\ Raise("KeyError")
         /\ log' = sofar
         /\ UNCHANGED <<files, clock>>
    ELSE IF config.asset_opts.save_assets
    THEN IF "dir" \notin DOMAIN config.asset_opts
         THEN /\ Raise("KeyError")
              /\ log' = sofar
              /\ UNCHANGED <<files, clock>>
         ELSE \E t \in 0 .. MaxClock :
                 /\ Tick(t)
                 /\ \/ /\ files' = Append(files,
                              [name |-> PlotName(config, prefix, t), kind |-> "png",
                               rows |-> <<>>, at |-> Len(sofar) + 1])
                       /\ log' = sofar \o << <<"savefig", phase>>, <<"show", phase>> >>
                       /\ pc' = next
                       /\ exc' = exc
                    \/ /\ Raise("savefig")
                       /\ log' = Append(sofar, <<"savefig", phase>>)
                       /\ files' = files
    ELSE /\ log' = Append(sofar, <<"show", phase>>)
         /\ pc' = next
         /\ exc' = exc
         /\ UNCHANGED <<files, clock>>

\* __plot_multi_predictions(predictions, test_labels, test_images, num_images, plot_title)
plot_multi_predictions(preds, labels, images, num_images, plot_title, phase, next) ==
    LET drawn == Subplots(preds, labels, images, num_images, config.class_names)
        sofar == Append(log, <<"plot_multi", phase>>)
    IN  /\ figure' = [title |-> plot_title, subplots |-> drawn]
        /\ IF Len(drawn) < num_images
           THEN /\ Raise("IndexError")
                /\ log' = sofar
                /\ UNCHANGED <<files, clock>>
           ELSE print_plot(plot_title, phase, sofar, next)

\* the rows csv.writer is given for a dictionary: one per key, in key order
CsvRows(dict, keys) == [i \in 1 .. Len(keys) |-> <<keys[i], dict[keys[i]]>>]

ResultKeys == <<"EPOCHS", "loss", "accuracy">>

\* __print_dict(prefix, dict)
print_dict(prefix, dict, phase, next) ==
    IF "save_assets" \notin DOMAIN config.asset_opts
    THEN /\ Raise("KeyError")
         /\ UNCHANGED <<files, clock, log>>
    ELSE IF config.asset_opts.save_assets
    THEN IF "dir" \notin DOMAIN config.asset_opts
         THEN /\ Raise("KeyError")
              /\ UNCHANGED <<files, clock, log>>
         ELSE \E t \in 0 .. MaxClock :
                 /\ Tick(t)
                 /\ \/ /\ files' = Append(files,
                              [name |-> AssetName(config, prefix, t), kind |-> "csv",
                               rows |-> CsvRows(dict, ResultKeys), at |-> Len(log) + 1])
                       /\ log' = log \o << <<"csv", phase>>, <<"print", phase>> >>
                       /\ pc' = next
                       /\ exc' = exc
                    \/ /\ Raise("open")
                       /\ log' = Append(log, <<"csv", phase>>)
                       /\ files' = files
                    \/ \E written \in 0 .. (Len(ResultKeys) - 1) :
                       /\ Raise("writerow")
                       /\ log' = Append(log, <<"csv", phase>>)
                       /\ files' = Append(files,
                              [name |-> AssetName(config, prefix, t), kind |-> "csv",
                               rows |-> SubSeq(CsvRows(dict, ResultKeys), 1, written),
                               at |-> Len(log) + 1])
    ELSE /\ log' = Append(log, <<"print", phase>>)
         /\ pc' = next
         /\ exc' = exc
         /\ UNCHANGED <<files, clock>>

ResultDict_LossAsAccuracy(eval) ==
    [EPOCHS |-> config.EPOCHS, loss |-> eval.accuracy, accuracy |-> eval.loss]

\* {"EPOCHS": self.config['EPOCHS'], "loss": ..., "accuracy": ...}
ResultDict(eval) ==
    [EPOCHS |-> config.EPOCHS, loss |-> eval.loss, accuracy |-> eval.accuracy]

\* dataset = self.config['dataset']; ImageClassifierTrainer(dataset.load_data(), ...)
LoadData ==
    /\ pc = "load"
    /\ log' = Append(log, <<"load_data", "run">>)
    /\ \/ pc' = NextStep(pc) /\ exc' = exc
       \/ Raise("load_data")
    /\ UNCHANGED <<main, callerConfig, defaultArg, config, clock, trained, history,
                   test_eval, predictions, custom_imgs, custom_eval, figure,
                   results, returned, files, sweepVars, txt, plt>>

\* (processed_data, trained_tf_model, history) = TRAINER.run()
Train ==
    /\ pc = "train"
    /\ log' = Append(log, <<"run", "run">>)
    /\ \/ \E m \in 1 .. NumModels :
             /\ trained' = m
             /\ history' = FitHistory(config.EPOCHS)
             /\ pc' = NextStep(pc)
             /\ exc' = exc
       \/ Raise("run") /\ UNCHANGED <<trained, history>>
    /\ UNCHANGED <<main, callerConfig, defaultArg, config, clock, test_eval,
                   predictions, custom_imgs, custom_eval, figure, results,
                   returned, files, sweepVars, txt, plt>>

PlotHistory_Always ==
    /\ pc = "plot_history"
    /\ log' = Append(log, <<"plot", "run">>)
    /\ \/ pc' = NextStep(pc) /\ exc' = exc
       \/ Raise("plot")
    /\ UNCHANGED <<main, callerConfig, defaultArg, config, clock, trained, history,
                   test_eval, predictions, custom_imgs, custom_eval, figure,
                   results, returned, files, sweepVars, txt, plt>>

\* if len(history.history.keys()) > 0: OPERATOR.plot(history)
PlotHistory ==
    /\ pc = "plot_history"
    /\ \/ /\ Cardinality(DOMAIN history) > 0
          /\ log' = Append(log, <<"plot", "run">>)
          /\ \/ pc' = NextStep(pc) /\ exc' = exc
             \/ Raise("plot")
       \/ /\ ~(Cardinality(DOMAIN history) > 0)
          /\ log' = log
          /\ pc' = NextStep(pc)
          /\ exc' = exc
    /\ UNCHANGED <<main, callerConfig, defaultArg, config, clock, trained, history,
                   test_eval, predictions, custom_imgs, custom_eval, figure,
                   results, returned, files, sweepVars, txt, plt>>

\* (test_loss, test_acc) = OPERATOR.evaluate((test_images, test_labels))
EvaluateTest ==
    /\ pc = "evaluate_test"
    /\ log' = Append(log, <<"evaluate", "test">>)
    /\ \/ /\ test_eval' = Evaluate(trained, Dataset(config.dataset).test_images,
                                   Dataset(config.dataset).test_labels, NumClasses)
          /\ pc' = NextStep(pc)
          /\ exc' = exc
       \/ Raise("evaluate") /\ UNCHANGED test_eval
    /\ UNCHANGED <<main, callerConfig, defaultArg, config, clock, trained, history,
                   predictions, custom_imgs, custom_eval, figure, results,
                   returned, files, sweepVars, txt, plt>>

\* predictions_array = OPERATOR.use(test_images)
UseTest ==
    /\ pc = "use_test"
    /\ log' = Append(log, <<"use", "test">>)
    /\ \/ /\ predictions' = Use(trained, Dataset(config.dataset).test_images, NumClasses)
          /\ pc' = NextStep(pc)
          /\ exc' = exc
       \/ Raise("use") /\ UNCHANGED predictions
    /\ UNCHANGED <<main, callerConfig, defaultArg, config, clock, trained, history,
                   test_eval, custom_imgs, custom_eval, figure, results,
                   returned, files, sweepVars, txt, plt>>

\* self.__plot_multi_predictions(predictions_array, test_labels, test_images, 15, ...)
PlotTest ==
    /\ pc = "plot_test"
    /\ plot_multi_predictions(predictions, Dataset(config.dataset).test_labels,
                              Dataset(config.dataset).test_images, FirstImages,
                              "First 15 Image Results", "test", NextStep(pc))
    /\ UNCHANGED <<main, callerConfig, defaultArg, config, trained, history,
                   test_eval, predictions, custom_imgs, custom_eval, results,
                   returned, sweepVars, txt, plt>>

\* test_image_results = {...}; self.__print_dict(f"{EPOCHS}EPOCHS Test Images", ...)
PrintTest ==
    /\ pc = "print_test"
    /\ results' = [test |-> ResultDict(test_eval)]
    /\ print_dict(<<ToString(config.EPOCHS), "EPOCHS Test Images">>,
                  ResultDict(test_eval), "test", NextStep(pc))
    /\ UNCHANGED <<main, callerConfig, defaultArg, config, trained, history,
                   test_eval, predictions, custom_imgs, custom_eval, figure,
                   returned, sweepVars, txt, plt>>

\* for f in sorted(glob.glob(custom_image_dir)): Image.open(f) ... custom_imgs.append(img)
LoadCustom ==
    /\ pc = "load_custom"
    /\ log' = Append(log, <<"open_images", "custom">>)
    /\ \/ \E n \in 0 .. MaxCustomFiles :
             /\ custom_imgs' = [i \in 1 .. n |-> CustomImage(i)]
             /\ pc' = NextStep(pc)
             /\ exc' = exc
       \/ Raise("open_image") /\ UNCHANGED custom_imgs
    /\ UNCHANGED <<main, callerConfig, defaultArg, config, clock, trained, history,
                   test_eval, predictions, custom_eval, figure, results,
                   returned, files, sweepVars, txt, plt>>

\* custom_predictions_array = OPERATOR.use(custom_imgs)
UseCustom ==
    /\ pc = "use_custom"
    /\ log' = Append(log, <<"use", "custom">>)
    /\ \/ /\ Len(custom_imgs) > 0
          /\ predictions' = Use(trained, custom_imgs, NumClasses)
          /\ pc' = NextStep(pc)
          /\ exc' = exc
       \/ Raise("use") /\ UNCHANGED predictions
    /\ UNCHANGED <<main, callerConfig, defaultArg, config, clock, trained, history,
                   test_eval, custom_imgs, custom_eval, figure, results,
                   returned, files, sweepVars, txt, plt>>

\* OPERATOR.evaluate((custom_imgs, np.array(correct_labels)))
EvaluateCustom ==
    /\ pc = "evaluate_custom"
    /\ log' = Append(log, <<"evaluate", "custom">>)
    /\ \/ /\ Len(custom_imgs) = Len(config.labels)
          /\ custom_eval' = Evaluate(trained, custom_imgs, config.labels, NumClasses)
          /\ pc' = NextStep(pc)
          /\ exc' = exc
       \/ Raise("evaluate") /\ UNCHANGED custom_eval
    /\ UNCHANGED <<main, callerConfig, defaultArg, config, clock, trained, history,
                   test_eval, predictions, custom_imgs, figure, results,
                   returned, files, sweepVars, txt, plt>>

\* self.__plot_multi_predictions(custom_predictions_array, correct_labels, custom_imgs, ...)
PlotCustom ==
    /\ pc = "plot_custom"
    /\ plot_multi_predictions(predictions, config.labels, custom_imgs,
                              Len(config.labels), "Custom Image Results",
                              "custom", NextStep(pc))
    /\ UNCHANGED <<main, callerConfig, defaultArg, config, trained, history,
                   test_eval, predictions, custom_imgs, custom_eval, results,
                   returned, sweepVars, txt, plt>>

\* custom_image_results = {...}; self.__print_dict(f"{EPOCHS}EPOCHS Custom Images", ...)
PrintCustom ==
    /\ pc = "print_custom"
    /\ results' = [test |-> results.test, custom |-> ResultDict(custom_eval)]
    /\ print_dict(<<ToString(config.EPOCHS), "EPOCHS Custom Images">>,
                  ResultDict(custom_eval), "custom", NextStep(pc))
    /\ UNCHANGED <<main, callerConfig, defaultArg, config, trained, history,
                   test_eval, predictions, custom_imgs, custom_eval, figure,
                   returned, sweepVars, txt, plt>>

\* return test_image_results, custom_image_results
Return ==
    /\ pc = "return"
    /\ returned' = <<results.test, results.custom>>
    /\ log' = Append(log, <<"return", "run">>)
    /\ pc' = NextStep(pc)
    /\ UNCHANGED <<main, callerConfig, defaultArg, config, clock, trained, history,
                   test_eval, predictions, custom_imgs, custom_eval, figure,
                   results, files, exc, sweepVars, txt, plt>>

Execute ==
    \/ LoadData \/ Train \/ PlotHistory \/ EvaluateTest \/ UseTest \/ PlotTest
    \/ PrintTest \/ LoadCustom \/ UseCustom \/ EvaluateCustom \/ PlotCustom
    \/ PrintCustom \/ Return

(***************************************************************************)
(* A caller that builds one experiment and runs it.                        *)
(***************************************************************************)
\* experiment = ClassifierExperiment(config)
Construct ==
    /\ main = "experiment"
    /\ pc = "new"
    /\ config' = ClassifierExperiment_init(Param)
    /\ pc' = "constructed"
    /\ UNCHANGED <<main, callerConfig, defaultArg, execVars, exc, sweepVars, txt, plt>>

\* experiment.run(): the base class hands over to _execute (either caller)
Run ==
    /\ pc = "constructed"
    /\ pc' = Steps[1]
    /\ UNCHANGED <<main, callerConfig, defaultArg, config, execVars, exc, sweepVars,
                   txt, plt>>

InitExec ==
    /\ clock = 0
    /\ trained = 0
    /\ history = EmptyDict
    /\ test_eval = <<>>
    /\ predictions = <<>>
    /\ custom_imgs = <<>>
    /\ custom_eval = <<>>
    /\ figure = <<>>
    /\ results = EmptyDict
    /\ returned = <<>>
    /\ files = <<>>
    /\ log = <<>>

(***************************************************************************)
(* run_classifier_experiment: the sweep over epoch_list.                   *)
(***************************************************************************)
FullEpochList == <<0, 5, 10, 15, 20, 25, 30, 40, 50, 60, 70, 80, 100>>

\* the part of epoch_list the model goes through
EpochList == SubSeq(FullEpochList, 1, SweepLen)

AssetsDir == <<".", Sep, "image_classifier_experiment", Sep, "generated_assets", Sep>>

\* the mapping experiment1 is constructed with
SweepConfig1(EPOCHS) ==
    [EPOCHS |-> EPOCHS,
     asset_opts |-> [save_assets |-> TRUE, dir |-> AssetsDir \o <<"fashion_mnist", Sep>>],
     dataset |-> "fashion_mnist",
     custom_image_dir |-> "./image_classifier_experiment/custom images/fashion_mnist/*.jpg",
     labels |-> <<0, 8, 8, 3, 2, 1, 4, 5, 9, 7, 6>>,
     class_names |-> FashionNames]

\* the mapping experiment2 is constructed with
SweepConfig2(EPOCHS) ==
    [EPOCHS |-> EPOCHS,
     asset_opts |-> [save_assets |-> TRUE, dir |-> AssetsDir \o <<"mnist", Sep>>],
     dataset |-> "mnist",
     custom_image_dir |-> "./image_classifier_experiment/custom images/mnist/*.png",
     labels |-> <<0, 0, 1, 9, 8, 2, 4, 3, 5, 7, 6>>,
     class_names |-> DigitNames]

EmptyResults(epochs) ==
    [test |-> [epochs |-> epochs, loss |-> <<>>, accuracy |-> <<>>],
     custom |-> [epochs |-> epochs, loss |-> <<>>, accuracy |-> <<>>]]

AppendResults_Swapped(lists, ret) ==
    [test |-> [lists.test EXCEPT !.loss = Append(@, ret[2].loss),
                                 !.accuracy = Append(@, ret[2].accuracy)],
     custom |-> [lists.custom EXCEPT !.loss = Append(@, ret[1].loss),
                                     !.accuracy = Append(@, ret[1].accuracy)]]

\* the four appends after a run returned (test_image_results, custom_image_results)
AppendResults(lists, ret) ==
    [test |-> [lists.test EXCEPT !.loss = Append(@, ret[1].loss),
                                 !.accuracy = Append(@, ret[1].accuracy)],
     custom |-> [lists.custom EXCEPT !.loss = Append(@, ret[2].loss),
                                     !.accuracy = Append(@, ret[2].accuracy)]]

\* a fresh call of _execute: its locals are unset
FreshLocals ==
    /\ trained' = 0
    /\ history' = EmptyDict
    /\ test_eval' = <<>>
    /\ predictions' = <<>>
    /\ custom_imgs' = <<>>
    /\ custom_eval' = <<>>
    /\ results' = EmptyDict
    /\ returned' = <<>>
    /\ log' = <<>>

\* epoch_list = [...]; experiment1_results = {...}; experiment2_results = {...}
SweepStart ==
    /\ main = "sweep"
    /\ pc = "new"
    /\ epoch_list' = EpochList
    /\ experiment1_results' = EmptyResults(EpochList)
    /\ experiment2_results' = EmptyResults(EpochList)
    /\ pc' = "for"
    /\ UNCHANGED <<main, callerConfig, defaultArg, config, execVars, exc, idx, runs,
                   txt, plt>>

\* for EPOCHS in epoch_list: experiment1 = ClassifierExperiment({...})
SweepConstruct1 ==
    /\ main = "sweep"
    /\ pc = "for"
    /\ idx < Len(epoch_list)
    /\ idx' = idx + 1
    /\ callerConfig' = [passed |-> TRUE, value |-> SweepConfig1(epoch_list[idx + 1])]
    /\ config' = ClassifierExperiment_init(SweepConfig1(epoch_list[idx + 1]))
    /\ runs' = Append(runs, [ev |-> "start", experiment |-> 1,
                             EPOCHS |-> epoch_list[idx + 1], result |-> <<>>])
    /\ FreshLocals
    /\ pc' = "constructed"
    /\ UNCHANGED <<main, defaultArg, clock, figure, files, exc, epoch_list,
                   experiment1_results, experiment2_results, txt, plt>>

\* test_image_results1, custom_image_results1 = experiment1.run(); four appends
SweepAppend1 ==
    /\ main = "sweep"
    /\ pc = "returned"
    /\ config.dataset = "fashion_mnist"
    /\ experiment1_results' = AppendResults(experiment1_results, returned)
    /\ runs' = Append(runs, [ev |-> "end", experiment |-> 1,
                             EPOCHS |-> config.EPOCHS, result |-> returned])
    /\ pc' = "construct2"
    /\ UNCHANGED <<main, callerConfig, defaultArg, config, execVars, exc, idx,
                   epoch_list, experiment2_results, txt, plt>>

\* experiment2 = ClassifierExperiment({...})
SweepConstruct2 ==
    /\ main = "sweep"
    /\ pc = "construct2"
    /\ callerConfig' = [passed |-> TRUE, value |-> SweepConfig2(epoch_list[idx])]
    /\ config' = ClassifierExperiment_init(SweepConfig2(epoch_list[idx]))
    /\ runs' = Append(runs, [ev |-> "start", experiment |-> 2,
                             EPOCHS |-> epoch_list[idx], result |-> <<>>])
    /\ FreshLocals
    /\ pc' = "constructed"
    /\ UNCHANGED <<main, defaultArg, clock, figure, files, exc, idx, epoch_list,
                   experiment1_results, experiment2_results, txt, plt>>

\* test_image_results2, custom_image_results2 = experiment2.run(); four appends
SweepAppend2 ==
    /\ main = "sweep"
    /\ pc = "returned"
    /\ config.dataset = "mnist"
    /\ experiment2_results' = AppendResults(experiment2_results, returned)
    /\ runs' = Append(runs, [ev |-> "end", experiment |-> 2,
                             EPOCHS |-> config.EPOCHS, result |-> returned])
    /\ pc' = "for"
    /\ UNCHANGED <<main, callerConfig, defaultArg, config, execVars, exc, idx,
                   epoch_list, experiment1_results, txt, plt>>

\* plt.plot('epochs', 'loss', data=d): x and y must be equally long
PlotOk(d) == Len(d.epochs) = Len(d.loss)

\* the data a comparison plot draws: the two loss lines over the epochs
ComparisonPlot(which) ==
    [title |-> which,
     lines |-> <<experiment1_results[which], experiment2_results[which]>>]

\* one of the two comparison plots: plot both loss lines, savefig, show
Comparison(which, name, next) ==
    /\ idx = Len(epoch_list)
    /\ IF PlotOk(experiment1_results[which]) /\ PlotOk(experiment2_results[which])
       THEN /\ figure' = ComparisonPlot(which)
            /\ \/ /\ files' = Append(files, [name |-> AssetsDir \o <<name>>,
                                            kind |-> "comparison", rows |-> <<>>, at |-> 0])
                  /\ pc' = next
                  /\ exc' = exc
               \/ /\ Raise("savefig_comparison")
                  /\ files' = files
       ELSE /\ Raise("ValueError_comparison")
            /\ UNCHANGED <<figure, files>>
    /\ UNCHANGED <<main, callerConfig, defaultArg, config, clock, trained, history,
                   test_eval, predictions, custom_imgs, custom_eval, results,
                   returned, log, sweepVars, txt, plt>>

\* plot results for test data
SweepPlotTest ==
    /\ main = "sweep"
    /\ pc = "for"
    /\ Comparison("test", "Test Data Fashion MNIST vs MNIST.png", "plot_custom_data")

\* plot results for custom data
SweepPlotCustom ==
    /\ main = "sweep"
    /\ pc = "plot_custom_data"
    /\ Comparison("custom", "Custom Data Fashion MNIST vs MNIST.png", "done")

Sweep ==
    \/ SweepStart \/ SweepConstruct1 \/ SweepAppend1 \/ SweepConstruct2
    \/ SweepAppend2 \/ SweepPlotTest \/ SweepPlotCustom

(***************************************************************************)
(* TextClassifierTrainer and TextClassifierOperator.                       *)
(***************************************************************************)
TextDefaultConfig ==
    [batch_size |-> 32,
     seed |-> 42,
     validation_split |-> "0.2",
     max_features |-> 10000,
     sequence_length |-> 250,
     EPOCHS |-> TextDefaultEpochs,
     checkpoint_dir |-> <<".", Sep, "text_binary_classifier_experiment", Sep,
                         "cache", Sep, "ckpt", Sep>>]

\* __init__: config = {**default, **config}, kept as definition['config']
TextClassifierTrainer_init(arg) == DictMerge(TextDefaultConfig, arg)

\* the mappings a caller constructs the text trainer with
TextCallerConfigs ==
    {[EPOCHS |-> n] : n \in 0 .. MaxEpochs}
    \cup { [EPOCHS |-> 2, checkpoint_dir |-> <<"ckpt", Sep>>, note |-> "short run"],
           [EPOCHS |-> 1, batch_size |-> 64] }

cp_callback_BestOnly ==
    [filepath |-> config.checkpoint_dir, save_weights_only |-> TRUE,
     save_best_only |-> TRUE]

\* tf.keras.callbacks.ModelCheckpoint(filepath=checkpoint_path,
\*     save_weights_only=True, save_best_only=False, verbose=1)
cp_callback ==
    [filepath |-> config.checkpoint_dir, save_weights_only |-> TRUE,
     save_best_only |-> FALSE]

\* the validation loss of a model with weights w
ValLoss(w) == w

\* ModelCheckpoint at the end of an epoch: whether it saves, given the
\* monitored validation loss and the best one seen (<<>> before the first)
CheckpointSaves(cb, val_loss, best) ==
    IF cb.save_best_only THEN best = <<>> \/ val_loss < best[1] ELSE TRUE

\* the text test split: examples as identifiers, labels 0 / 1
TextTestDs ==
    [examples |-> [i \in 1 .. TestSize |-> i],
     labels |-> [i \in 1 .. TestSize |-> i % 2]]

\* the logit a model with weights w gives example x
Logit(w, x) == (((w + 1) * x) % 3) - 1

\* BinaryAccuracy(threshold=0.0) over a dataset, kept as a fraction
BinaryAccuracy(w, ds) ==
    [num |-> Cardinality({i \in 1 .. Len(ds.examples) :
                 (IF Logit(w, ds.examples[i]) > 0 THEN 1 ELSE 0) = ds.labels[i]}),
     den |-> Len(ds.examples)]

\* self.model.evaluate(test_ds): [loss, binary_accuracy]
ModelEvaluate(w, ds) ==
    <<[num |-> SumSeq([i \in 1 .. Len(ds.examples) |->
                  IF (IF Logit(w, ds.examples[i]) > 0 THEN 1 ELSE 0) = ds.labels[i]
                  THEN 0 ELSE 3]),
       den |-> Len(ds.examples)],
      BinaryAccuracy(w, ds)>>

\* TextClassifierOperator.evaluate(params): (loss, accuracy)
TextEvaluate(params) ==
    LET test_ds == params[3]
        r == ModelEvaluate(txt.weights, test_ds)
    IN  <<r[1], r[2]>>

\* trainer = TextClassifierTrainer(data_dir, config)
TextConstruct ==
    /\ main = "text"
    /\ pc = "new"
    /\ config' = TextClassifierTrainer_init(Param)
    /\ pc' = "train_tf_model"
    /\ UNCHANGED <<main, callerConfig, defaultArg, execVars, exc, sweepVars, txt, plt>>

\* _train_tf_model up to the call of model.fit: the callback and the epochs
TrainTfModel ==
    /\ main = "text"
    /\ pc = "train_tf_model"
    /\ txt' = [txt EXCEPT !.callback = cp_callback, !.epochs = config.EPOCHS]
    /\ pc' = "fit"
    /\ UNCHANGED <<main, callerConfig, defaultArg, config, execVars, exc, sweepVars, plt>>

\* model.fit, one epoch: the weights move, the epoch's metrics join the
\* history, and the callback runs at the end of the epoch
FitEpoch ==
    /\ main = "text"
    /\ pc = "fit"
    /\ txt.epoch < txt.epochs
    /\ \/ \E w \in 1 .. NumModels :
             LET saves == CheckpointSaves(txt.callback, ValLoss(w), txt.best)
             IN  /\ txt' = [txt EXCEPT
                        !.epoch = @ + 1,
                        !.weights = w,
                        !.history = Append(@, ValLoss(w)),
                        !.best = IF txt.callback.save_best_only /\ saves
                                 THEN <<ValLoss(w)>> ELSE @,
                        !.saves = IF saves
                                  THEN Append(@, [path |-> txt.callback.filepath,
                                                  epoch |-> txt.epoch + 1, weights |-> w])
                                  ELSE @]
                 /\ UNCHANGED <<pc, exc>>
       \/ Raise("fit") /\ UNCHANGED txt
    /\ UNCHANGED <<main, callerConfig, defaultArg, config, execVars, sweepVars, plt>>

\* model.fit returns after the last epoch; _train_tf_model returns the history
FitReturn ==
    /\ main = "text"
    /\ pc = "fit"
    /\ txt.epoch = txt.epochs
    /\ pc' = "trained"
    /\ UNCHANGED <<main, callerConfig, defaultArg, config, execVars, exc, sweepVars,
                   txt, plt>>

\* OPERATOR.evaluate((train_ds, val_ds, test_ds)) on the trained model
TextOperatorEvaluate ==
    /\ main = "text"
    /\ pc = "trained"
    /\ \/ /\ txt' = [txt EXCEPT !.evaluated = TextEvaluate(<<"train_ds", "val_ds", TextTestDs>>)]
          /\ pc' = "evaluated"
          /\ exc' = exc
       \/ Raise("evaluate") /\ UNCHANGED txt
    /\ UNCHANGED <<main, callerConfig, defaultArg, config, execVars, sweepVars, plt>>

Text == TextConstruct \/ TrainTfModel \/ FitEpoch \/ FitReturn \/ TextOperatorEvaluate

\* the checkpoint files on disk: what the last save to each path wrote
Checkpoint(path) ==
    LET at == {i \in DOMAIN txt.saves : txt.saves[i].path = path}
    IN  IF at = {} THEN <<>> ELSE <<txt.saves[Max(at)]>>

(***************************************************************************)
(* The plot helpers on their own, over every prediction vector and label.  *)
(***************************************************************************)
PredictionVectors ==
    {v \in [1 .. NumBars -> 0 .. MaxLikelihood] :
        Cardinality({i \in 1 .. NumBars : v[i] > 0}) <= MaxPeaks}

\* self.__plot_image(predictions[i], test_labels[i], test_images[i])
PlotImage ==
    /\ main = "plot"
    /\ pc = "plot_image"
    /\ plt' = [plt EXCEPT !.xlabel = <<plot_image(plt.predictions_array, plt.true_label,
                                                  FashionNames)>>]
    /\ pc' = "plot_value_array"
    /\ UNCHANGED <<main, callerConfig, defaultArg, config, execVars, exc, sweepVars, txt>>

\* self.__plot_value_array(predictions[i], test_labels[i])
PlotValueArray ==
    /\ main = "plot"
    /\ pc = "plot_value_array"
    /\ plt' = [plt EXCEPT !.bars = plot_value_array(plt.predictions_array, plt.true_label)]
    /\ pc' = "plotted"
    /\ UNCHANGED <<main, callerConfig, defaultArg, config, execVars, exc, sweepVars, txt>>

Plot == PlotImage \/ PlotValueArray

(***************************************************************************)
(* The initial states: one per entry point and input.                      *)
(***************************************************************************)
TxtIdle ==
    [weights |-> 0, epoch |-> 0, epochs |-> 0, callback |-> <<>>, history |-> <<>>,
     best |-> <<>>, saves |-> <<>>, evaluated |-> <<>>]

PltIdle == [predictions_array |-> <<>>, true_label |-> 0, xlabel |-> <<>>, bars |-> <<>>]

InitIdle ==
    /\ defaultArg = EmptyDict
    /\ config = EmptyDict
    /\ exc = "none"
    /\ InitExec
    /\ idx = 0
    /\ epoch_list = <<>>
    /\ experiment1_results = EmptyDict
    /\ experiment2_results = EmptyDict
    /\ runs = <<>>

NoArgument == [passed |-> FALSE, value |-> EmptyDict]

InitExperiment ==
    /\ main = "experiment"
    /\ pc = "new"
    /\ callerConfig \in {NoArgument} \cup {[passed |-> TRUE, value |-> c] : c \in CallerConfigs}
    /\ InitIdle
    /\ txt = TxtIdle
    /\ plt = PltIdle

InitSweep ==
    /\ main = "sweep"
    /\ pc = "new"
    /\ callerConfig = NoArgument
    /\ InitIdle
    /\ txt = TxtIdle
    /\ plt = PltIdle

InitText ==
    /\ main = "text"
    /\ pc = "new"
    /\ callerConfig \in {NoArgument} \cup {[passed |-> TRUE, value |-> c] : c \in TextCallerConfigs}
    /\ InitIdle
    /\ txt = TxtIdle
    /\ plt = PltIdle

InitPlot ==
    /\ main = "plot"
    /\ pc = "plot_image"
    /\ callerConfig = NoArgument
    /\ InitIdle
    /\ txt = TxtIdle
    /\ plt \in {[PltIdle EXCEPT !.predictions_array = v, !.true_label = l] :
                   v \in PredictionVectors, l \in 0 .. (NumBars - 1)}

Init == InitExperiment \/ InitSweep \/ InitText \/ InitPlot

Next == Construct \/ Run \/ Execute \/ Sweep \/ Text \/ Plot

Spec == Init /\ [][Next]_vars

(***************************************************************************)
(* What the claims are stated with.                                        *)
(***************************************************************************)
Logged(e) == e \in Range(log)

\* where call e is in the log, 0 when it was not made
IndexOf(e) == IF Logged(e) THEN CHOOSE i \in DOMAIN log : log[i] = e ELSE 0

\* the step of the claimed order a logged call belongs to, 0 for a call the
\* order does not name (the history plot)
StepOf(e) ==
    CASE e = <<"load_data", "run">> -> 1
      [] e = <<"run", "run">> -> 2
      [] e = <<"evaluate", "test">> -> 3
      [] e = <<"use", "test">> -> 4
      [] e \in {<<"plot_multi", "test">>, <<"savefig", "test">>, <<"show", "test">>} -> 5
      [] e \in {<<"csv", "test">>, <<"print", "test">>} -> 6
      [] e = <<"open_images", "custom">> -> 7
      [] e = <<"use", "custom">> -> 8
      [] e = <<"evaluate", "custom">> -> 9
      [] e \in {<<"plot_multi", "custom">>, <<"savefig", "custom">>, <<"show", "custom">>} -> 10
      [] e \in {<<"csv", "custom">>, <<"print", "custom">>} -> 11
      [] e = <<"return", "run">> -> 12
      [] OTHER -> 0

\* the steps of the calls made, the unnamed call left out
StepsTaken == SelectSeq([i \in DOMAIN log |-> StepOf(log[i])], LAMBDA n : n > 0)

\* a float kept as a fraction lies in [0, 1]
InUnit(a) == a.den > 0 /\ 0 <= a.num /\ a.num <= a.den

InExperiment == main \in {"experiment", "sweep"}

\* C1: in every run of _execute the calls are made in the order load, train,
\* evaluate test, predict test, plot test, print/save test, load custom,
\* predict custom, evaluate custom, plot custom, print/save custom, return:
\* no step is skipped, repeated or overtaken, a run that returned made all
\* twelve, evaluate and predict come only after training returned, and a plot
\* or a saved result only after the predict / evaluate call that produced it.
C1_FixedOrder ==
    InExperiment =>
        LET taken == StepsTaken
            trainedAt == IndexOf(<<"run", "run">>)
        IN  /\ \A i, j \in DOMAIN log : i # j => log[i] # log[j]
            /\ \A i \in DOMAIN taken :
                  IF i = 1 THEN taken[i] = 1
                  ELSE taken[i] \in {taken[i - 1], taken[i - 1] + 1}
            /\ pc = "returned" => Range(taken) = 1 .. 12
            /\ \A ph \in {"test", "custom"} :
                  /\ Logged(<<"evaluate", ph>>) \/ Logged(<<"use", ph>>)
                        => trained # 0 /\ trainedAt > 0 /\ trainedAt < Len(log)
                  /\ Logged(<<"plot_multi", ph>>)
                        => 0 < IndexOf(<<"use", ph>>)
                           /\ IndexOf(<<"use", ph>>) < IndexOf(<<"plot_multi", ph>>)
                           /\ predictions # <<>>
                  /\ Logged(<<"csv", ph>>) \/ Logged(<<"print", ph>>)
                        => 0 < IndexOf(<<"evaluate", ph>>)
                           /\ \A e \in {<<"csv", ph>>, <<"print", ph>>} :
                                 Logged(e) => IndexOf(<<"evaluate", ph>>) < IndexOf(e)

\* a run of _execute went through all its steps and returned
C1_Witness ==
    /\ main = "experiment"
    /\ pc = "returned"
    /\ Logged(<<"plot", "run">>)
    /\ Len(files) = 4

ComparisonFiles == {i \in DOMAIN files : files[i].kind = "comparison"}

EndsOf(e) == SelectSeq(runs, LAMBDA r : r.ev = "end" /\ r.experiment = e)

ListsOf(e) ==
    LET d == IF e = 1 THEN experiment1_results ELSE experiment2_results
    IN  <<d.test.loss, d.test.accuracy, d.custom.loss, d.custom.accuracy>>

\* C2: once a step of _execute has raised, the exception is out of _execute
\* and of run_classifier_experiment: the program is at no statement, nothing
\* further can run (no retry, no later step, no later epoch), no call was made
\* twice, nothing was returned by that run or appended for it, and no
\* comparison plot is saved.
C2_Propagates ==
    (InExperiment /\ exc \notin {"none", "savefig_comparison", "ValueError_comparison"}) =>
        /\ pc = "raised"
        /\ ~ENABLED Next
        /\ \A i, j \in DOMAIN log : i # j => log[i] # log[j]
        /\ returned = <<>>
        /\ ~Logged(<<"return", "run">>)
        /\ ComparisonFiles = {}
        /\ main = "sweep" =>
              /\ runs[Len(runs)].ev = "start"
              /\ runs[Len(runs)].EPOCHS = epoch_list[idx]
              /\ \A e \in {1, 2} : \A k \in 1 .. 4 :
                    Len(ListsOf(e)[k]) = Len(EndsOf(e))
              /\ Len(EndsOf(1)) + Len(EndsOf(2)) = Cardinality({i \in DOMAIN runs : runs[i].ev = "start"}) - 1

\* the MNIST run of the sweep's first iteration raised in evaluate, with
\* later epochs still to come
C2_Witness ==
    /\ main = "sweep"
    /\ exc = "evaluate"
    /\ idx = 1
    /\ idx < Len(epoch_list)
    /\ config.dataset = "mnist"
    /\ Len(experiment1_results.test.loss) = 1

PngFiles == {i \in DOMAIN files : files[i].kind = "png"}

CsvFiles == {i \in DOMAIN files : files[i].kind = "csv"}

\* a name begins with the pieces of dir
BeginsWith(name, dir) == Len(name) >= Len(dir) /\ SubSeq(name, 1, Len(dir)) = dir

\* what C3 says of the files of one run of one experiment, but for where the
\* files lie
C3_WritesIfDesired ==
    (main = "experiment" /\ pc \notin {"new", "constructed"}
        /\ "save_assets" \in DOMAIN config.asset_opts) =>
        /\ ~config.asset_opts.save_assets =>
              /\ files = <<>>
              /\ pc = "returned" =>
                    \A ph \in {"test", "custom"} :
                        Logged(<<"show", ph>>) /\ Logged(<<"print", ph>>)
        /\ config.asset_opts.save_assets =>
              /\ \A i \in DOMAIN log :
                    /\ log[i][1] = "show" =>
                          /\ i > 1 /\ log[i - 1] = <<"savefig", log[i][2]>>
                          /\ Cardinality({f \in PngFiles : files[f].at = i - 1}) = 1
                    /\ log[i][1] = "print" =>
                          /\ i > 1 /\ log[i - 1] = <<"csv", log[i][2]>>
                          /\ \E f \in CsvFiles :
                                /\ files[f].at = i - 1
                                /\ \A g \in CsvFiles : files[g].at = i - 1 => g = f
                                /\ [k \in DOMAIN files[f].rows |-> files[f].rows[k][1]]
                                       = ResultKeys
              /\ pc = "returned" =>
                    /\ Cardinality({files[f].name : f \in PngFiles}) = 2
                    /\ Cardinality(PngFiles) = 2
                    /\ Cardinality({files[f].name : f \in CsvFiles}) = 2
                    /\ Cardinality(CsvFiles) = 2
                    /\ \A f \in DOMAIN files : BeginsWith(files[f].name, config.asset_opts.dir)

\* C3: the experiment's own PNG and CSV files are written only if desired:
\* none when save_assets is false, one PNG per __print_plot before the show
\* and one CSV (a row per key) per __print_dict before the print when it is
\* true, so that a completed _execute has written two PNG and two CSV files,
\* all of them under config['asset_opts']['dir'].
C3_AssetsUnderDir ==
    /\ C3_WritesIfDesired
    /\ (main = "experiment" /\ pc = "returned"
           /\ "save_assets" \in DOMAIN config.asset_opts
           /\ config.asset_opts.save_assets) =>
          \A f \in DOMAIN files : Under(files[f].name, config.asset_opts.dir)

\* a completed run with save_assets true wrote its four files
C3_Witness ==
    /\ main = "experiment"
    /\ pc = "returned"
    /\ config.asset_opts.save_assets
    /\ Len(files) = 4
    /\ clock = 1

\* C4: with EPOCHS = N the checkpoint callback writes the weights at the end
\* of every one of the N epochs, each time to the one configured
\* checkpoint_dir path: during fit there is one save per finished epoch, after
\* training with N >= 1 the path holds the weights of epoch N, which are the
\* model's, and with N = 0 nothing was saved.
C4_CheckpointEveryEpoch ==
    (main = "text" /\ pc \in {"fit", "trained", "evaluated"}) =>
        /\ txt.epochs = config.EPOCHS
        /\ Len(txt.saves) = txt.epoch
        /\ \A i \in DOMAIN txt.saves :
              /\ txt.saves[i].epoch = i
              /\ txt.saves[i].path = config.checkpoint_dir
        /\ pc \in {"trained", "evaluated"} =>
              /\ txt.epoch = config.EPOCHS
              /\ config.EPOCHS >= 1 =>
                    Checkpoint(config.checkpoint_dir) =
                        <<[path |-> config.checkpoint_dir, epoch |-> config.EPOCHS,
                           weights |-> txt.weights]>>
              /\ config.EPOCHS = 0 => txt.saves = <<>>

\* training ended on an epoch whose validation loss is not the best seen,
\* after an earlier epoch's snapshot with other weights
C4_Witness ==
    /\ main = "text"
    /\ pc = "trained"
    /\ config.EPOCHS >= 2
    /\ txt.saves[1].weights # txt.weights
    /\ \E i \in DOMAIN txt.history : txt.history[i] < ValLoss(txt.weights)

DefaultOf(m) == IF m = "text" THEN TextDefaultConfig ELSE DefaultConfig

\* C5: the inputted config takes precedence over the default: once either
\* class is constructed its config has the keys of the default and of the
\* caller's mapping, each with the caller's value if the caller gave the key
\* and the default's otherwise; and no step changes the caller's mapping or
\* the shared default argument.
C5_CallerTakesPrecedence ==
    /\ [](main \in {"experiment", "text"} /\ pc # "new" =>
            /\ DOMAIN config = (DOMAIN DefaultOf(main)) \cup (DOMAIN Param)
            /\ \A k \in DOMAIN config :
                  config[k] = IF k \in DOMAIN Param THEN Param[k] ELSE DefaultOf(main)[k])
    /\ [](defaultArg = EmptyDict)
    /\ [][(main \in {"experiment", "text"}) => (callerConfig' = callerConfig)]_vars

\* an experiment was constructed with a mapping that overrides a default key
\* and brings a key the default does not have
C5_Witness ==
    /\ main = "experiment"
    /\ pc = "constructed"
    /\ callerConfig.passed
    /\ "note" \in DOMAIN config
    /\ config.EPOCHS = 1
    /\ config.asset_opts = DefaultConfig.asset_opts

\* C6: accuracy is reported as a float in [0, 1]: the accuracy entry of the
\* test-image and of the custom-image result of _execute, and the accuracy
\* TextClassifierOperator.evaluate returns, lie in [0, 1] for every EPOCHS,
\* 0 included, and the EPOCHS entry of both results is the configured EPOCHS.
C6_AccuracyInUnit ==
    /\ InExperiment =>
          /\ \A ph \in DOMAIN results :
                InUnit(results[ph].accuracy) /\ results[ph].EPOCHS = config.EPOCHS
          /\ returned # <<>> =>
                \A i \in 1 .. 2 :
                    InUnit(returned[i].accuracy) /\ returned[i].EPOCHS = config.EPOCHS
    /\ (main = "text" /\ txt.evaluated # <<>>) => InUnit(txt.evaluated[2])

\* a run with EPOCHS = 0 returned, with an accuracy that is neither 0 nor 1
\* for the test images and a loss above 1
C6_Witness ==
    /\ main = "experiment"
    /\ pc = "returned"
    /\ config.EPOCHS = 0
    /\ 0 < returned[1].accuracy.num
    /\ returned[1].accuracy.num < returned[1].accuracy.den
    /\ returned[1].loss.num > returned[1].loss.den
    /\ InUnit(returned[2].accuracy)

\* the text operator evaluated a model trained with EPOCHS = 0
C6_WitnessText ==
    /\ main = "text"
    /\ pc = "evaluated"
    /\ config.EPOCHS = 0
    /\ txt.evaluated[1].num > txt.evaluated[1].den

\* C7: OPERATOR.plot(history) is called exactly when the history has a key:
\* never with an empty history, always with a non-empty one before the run
\* goes on; training with EPOCHS = 0 leaves the history empty; and either way
\* a run that is not stopped by an exception goes on to evaluate and returns
\* both result dictionaries.
C7_PlotHistoryIfAble ==
    InExperiment =>
        /\ Logged(<<"plot", "run">>) => Cardinality(DOMAIN history) > 0
        /\ (Logged(<<"evaluate", "test">>) \/ exc = "plot") =>
              (Logged(<<"plot", "run">>) <=> Cardinality(DOMAIN history) > 0)
        /\ (trained # 0 /\ config.EPOCHS = 0) => DOMAIN history = {}
        /\ (trained # 0 /\ config.EPOCHS > 0) => DOMAIN history # {}
        /\ (pc = "plot_history" /\ DOMAIN history = {}) => ENABLED PlotHistory
        /\ pc = "returned" =>
              /\ Len(returned) = 2
              /\ \A i \in 1 .. 2 : DOMAIN returned[i] = {"EPOCHS", "loss", "accuracy"}
              /\ Logged(<<"evaluate", "test">>) /\ Logged(<<"use", "test">>)
              /\ Logged(<<"open_images", "custom">>) /\ Logged(<<"evaluate", "custom">>)

\* a run with EPOCHS = 0 skipped the history plot and returned
C7_Witness ==
    /\ main = "experiment"
    /\ pc = "returned"
    /\ config.EPOCHS = 0
    /\ ~Logged(<<"plot", "run">>)
    /\ Len(returned) = 2

\* C8: correct predictions are blue and incorrect ones red: the image's label
\* is blue exactly when argmax(predictions) is the true label and red
\* otherwise; of the ten bars the true label's is blue in every case, the
\* predicted label's is red exactly when the prediction is incorrect, and
\* every other bar is grey.
C8_BlueCorrectRedIncorrect ==
    main = "plot" =>
        LET predicted == ArgMax(plt.predictions_array)
            correct == predicted = plt.true_label
        IN  /\ plt.xlabel # <<>> =>
                  /\ plt.xlabel[1].color = (IF correct THEN "blue" ELSE "red")
                  /\ \A c \in 0 .. (NumBars - 1) :
                        At(plt.predictions_array, c) <= At(plt.predictions_array, predicted)
            /\ plt.bars # <<>> =>
                  /\ Len(plt.bars) = NumBars
                  /\ At(plt.bars, plt.true_label) = "blue"
                  /\ (At(plt.bars, predicted) = "red") <=> ~correct
                  /\ \A c \in 0 .. (NumBars - 1) :
                        c \notin {predicted, plt.true_label} => At(plt.bars, c) = "#777777"

\* both helpers ran on a correct prediction whose vector has a tie for the
\* largest likelihood
C8_Witness ==
    /\ main = "plot"
    /\ pc = "plotted"
    /\ ArgMax(plt.predictions_array) = plt.true_label
    /\ plt.true_label > 0
    /\ \E c \in 0 .. (NumBars - 1) :
          /\ c # plt.true_label
          /\ At(plt.predictions_array, c) = At(plt.predictions_array, plt.true_label)

\* an incorrect prediction was plotted
C8_WitnessIncorrect ==
    /\ main = "plot"
    /\ pc = "plotted"
    /\ ArgMax(plt.predictions_array) # plt.true_label
    /\ plt.xlabel[1].color = "red"

\* C9: the sweep keeps its eight lists aligned with epoch_list: epoch_list is
\* never modified; the four lists of an experiment are as long as the runs of
\* it that returned, their i-th entries being what the run with
\* EPOCHS = epoch_list[i] returned; at the head of the loop, after k
\* iterations, all eight have k entries; the Fashion-MNIST run of an iteration
\* has returned before the MNIST run starts; and a comparison plot is saved
\* only after all iterations, with every list as long as epoch_list.
C9_ListsAligned ==
    (main = "sweep" /\ pc # "new") =>
        /\ epoch_list = EpochList
        /\ \A e \in {1, 2} :
              LET d == IF e = 1 THEN experiment1_results ELSE experiment2_results
                  ends == EndsOf(e)
              IN  /\ d.test.epochs = epoch_list /\ d.custom.epochs = epoch_list
                  /\ \A k \in 1 .. 4 : Len(ListsOf(e)[k]) = Len(ends)
                  /\ Len(ends) <= idx
                  /\ \A i \in DOMAIN ends :
                        /\ ends[i].EPOCHS = epoch_list[i]
                        /\ ends[i].result[1].EPOCHS = epoch_list[i]
                        /\ ends[i].result[2].EPOCHS = epoch_list[i]
                        /\ d.test.loss[i] = ends[i].result[1].loss
                        /\ d.test.accuracy[i] = ends[i].result[1].accuracy
                        /\ d.custom.loss[i] = ends[i].result[2].loss
                        /\ d.custom.accuracy[i] = ends[i].result[2].accuracy
        /\ pc \in {"for", "plot_custom_data", "done"} =>
              \A e \in {1, 2} : \A k \in 1 .. 4 : Len(ListsOf(e)[k]) = idx
        /\ \A i \in DOMAIN runs :
              /\ runs[i].ev = (IF i % 2 = 1 THEN "start" ELSE "end")
              /\ runs[i].experiment = (IF i % 4 \in {1, 2} THEN 1 ELSE 2)
              /\ runs[i].EPOCHS = epoch_list[(i + 3) \div 4]
        /\ ComparisonFiles # {} =>
              /\ idx = Len(epoch_list)
              /\ \A e \in {1, 2} : \A k \in 1 .. 4 : Len(ListsOf(e)[k]) = Len(epoch_list)

\* the sweep went through all its epochs and saved both comparison plots,
\* with lists whose test and custom entries differ
C9_Witness ==
    /\ main = "sweep"
    /\ pc = "done"
    /\ Cardinality(ComparisonFiles) = 2
    /\ Len(experiment2_results.custom.accuracy) = Len(EpochList)
    /\ experiment1_results.test.loss # experiment1_results.custom.loss
    /\ experiment1_results.test.loss[1] # experiment1_results.test.loss[2]

====
